---- MODULE Spec2Model ----
(***************************************************************************)
(* StockSentinel: the indicator engine (data_fetcher.py), the rule-based   *)
(* recommendation engine (ai_analyzer.py) and the portfolio aggregator     *)
(* (data_fetcher.py), as state machines.                                   *)
(*                                                                         *)
(* Numbers.  The program computes in IEEE doubles (pandas / numpy).  A     *)
(* value is modelled as a pair <<n, d>>: the exact rational n/d in lowest  *)
(* terms when d > 0, and the three special doubles when d = 0:             *)
(* <<0,0>> is NaN, <<1,0>> is +inf, <<-1,0>> is -inf.  Rounding error of   *)
(* the doubles is not modelled; division by zero, NaN propagation and the  *)
(* comparisons with NaN are.                                               *)
(***************************************************************************)
EXTENDS Integers, Sequences, FiniteSets, TLC

VARIABLES
    hist_data,      \* the DataFrame: a function column name -> sequence
    metrics,        \* the metrics argument of get_stock_analysis
    pc,             \* position of the stock-analysis flow
    ind_outcome,    \* how calculate_technical_indicators ended
    signals,        \* the local dict `signals` of calculate_analysis
    analysis,       \* what get_stock_analysis returned
    caught,         \* the exception calculate_analysis raised inside it
    propagated,     \* the exception get_stock_analysis let through
    portfolio_data, \* the rows (Symbol, Shares) given to analyze_portfolio
    row,            \* index of the next row of the iterrows() loop
    pf,             \* the local dict `analysis` of analyze_portfolio
    ppc,            \* position of analyze_portfolio
    pf_result,      \* what analyze_portfolio returned to its caller
    pf_error,       \* the exception analyze_portfolio raised
    stock_info,     \* the provider's info dict given to get_key_metrics
    key_metrics,    \* what get_key_metrics returned
    km_raised,      \* the exception get_key_metrics raised
    kpc             \* position of get_key_metrics

vars == <<hist_data, metrics, pc, ind_outcome, signals, analysis, caught, propagated,
          portfolio_data, row, pf, ppc, pf_result, pf_error,
          stock_info, key_metrics, km_raised, kpc>>

stockVars == <<hist_data, metrics, pc, ind_outcome, signals, analysis, caught, propagated>>
portfolioVars == <<portfolio_data, row, pf, ppc, pf_result, pf_error>>
metricsVars == <<stock_info, key_metrics, km_raised, kpc>>

-----------------------------------------------------------------------------
(* Bounds of the model *)

MaxLen == 52        \* longest price series
MaxPrice == 2       \* close prices are 1..MaxPrice
BaseVolume == 2     \* the volume of every record but the last
MaxVolume == 3      \* the last record's volume is 1..MaxVolume
MaxRows == 2        \* longest free-form portfolio
MaxShares == 2      \* shares per row are 1..MaxShares

(* Program constants *)

WindowMA20 == 20
WindowMA50 == 50
WindowRSI == 14
WindowVolume == 20
RsiOversold == 30
RsiOverbought == 70

-----------------------------------------------------------------------------
(* Double arithmetic *)

NaN == <<0, 0>>
PosInf == <<1, 0>>
NegInf == <<-1, 0>>

Abs(x) == IF x < 0 THEN -x ELSE x
Sign(x) == IF x > 0 THEN 1 ELSE IF x < 0 THEN -1 ELSE 0

RECURSIVE GCD(_, _)
GCD(a, b) == IF b = 0 THEN a ELSE GCD(b, a % b)

Norm(n, d) ==
    IF d = 0 THEN <<Sign(n), 0>>
    ELSE LET s == IF d < 0 THEN -1 ELSE 1
             g == GCD(Abs(n), Abs(d))
         IN  <<(s * n) \div g, (s * d) \div g>>

F(i) == <<i, 1>>
IsNaN(a) == a = NaN
IsFinite(a) == a[2] > 0

FNeg(a) == <<-a[1], a[2]>>
FAdd(a, b) ==
    IF a[2] = 1 /\ b[2] = 1 THEN <<a[1] + b[1], 1>>
    ELSE IF IsFinite(a) /\ IsFinite(b) THEN Norm(a[1] * b[2] + b[1] * a[2], a[2] * b[2])
    ELSE IF IsNaN(a) \/ IsNaN(b) THEN NaN
    ELSE IF IsFinite(a) THEN b
    ELSE IF IsFinite(b) THEN a
    ELSE IF a = b THEN a ELSE NaN
FSub(a, b) == FAdd(a, FNeg(b))
FMul(a, b) == Norm(a[1] * b[1], a[2] * b[2])
FRecip(a) == IF a[1] < 0 THEN <<-a[2], -a[1]>> ELSE <<a[2], a[1]>>
FDiv(a, b) == FMul(a, FRecip(b))
\* every comparison with NaN is False
FGt(a, b) ==
    IF IsNaN(a) \/ IsNaN(b) THEN FALSE
    ELSE IF IsFinite(a) \/ IsFinite(b) THEN a[1] * b[2] > b[1] * a[2]
    ELSE a[1] > b[1]
FLt(a, b) == FGt(b, a)

RECURSIVE SumF(_, _, _)
\* s[lo] + ... + s[hi], summed by halves
SumF(s, lo, hi) ==
    IF lo > hi THEN F(0)
    ELSE IF lo = hi THEN s[lo]
    ELSE LET mid == (lo + hi) \div 2
         IN  FAdd(SumF(s, lo, mid), SumF(s, mid + 1, hi))

-----------------------------------------------------------------------------
(* pandas Series operations; a Series is a sequence of doubles *)

\* a Series holds its values: the sequence, element by element
Series(f) == f \o <<>>

\* Series.iloc[-k]
ILoc(s, k) == s[Len(s) - k + 1]

\* mutant: rolling(window=w, min_periods=1), the mean of the records there are
RollingMeanAt_minPeriods(s, w, i) ==
    LET lo == IF i < w THEN 1 ELSE i - w + 1
    IN  FDiv(SumF(s, lo, i), F(i - lo + 1))
\* Series.rolling(window=w).mean(): NaN until the window holds w records,
\* and NaN while a NaN is inside the window
\* mutant: the window counts as full one record late
RollingMeanAt_late(s, w, i) == IF i <= w THEN NaN ELSE FDiv(SumF(s, i - w + 1, i), F(w))
RollingMeanAt(s, w, i) == IF i < w THEN NaN ELSE FDiv(SumF(s, i - w + 1, i), F(w))
RollingMean(s, w) == Series([i \in 1..Len(s) |-> RollingMeanAt(s, w, i)])

\* Series.diff(): the first entry is NaN
Diff(s) == Series([i \in 1..Len(s) |-> IF i = 1 THEN NaN ELSE FSub(s[i], s[i - 1])])

\* delta.where(delta > 0, 0): NaN > 0 is False, so the first entry becomes 0
GainOf(delta) ==
    Series([i \in 1..Len(delta) |-> IF FGt(delta[i], F(0)) THEN delta[i] ELSE F(0)])
\* -delta.where(delta < 0, 0)
LossOf(delta) ==
    Series([i \in 1..Len(delta) |-> FNeg(IF FLt(delta[i], F(0)) THEN delta[i] ELSE F(0))])

\* rs = gain / loss ; 100 - (100 / (1 + rs))
RsiOf(gain, loss) ==
    LET rs == FDiv(gain, loss)
    IN  FSub(F(100), FDiv(F(100), FAdd(F(1), rs)))

RsiColumn(close) ==
    LET delta == Diff(close)
        gain == RollingMean(GainOf(delta), WindowRSI)
        loss == RollingMean(LossOf(delta), WindowRSI)
    IN  [i \in 1..Len(close) |-> RsiOf(gain[i], loss[i])]

\* df[name] = column
WithColumn(df, name, col) ==
    [c \in DOMAIN df \cup {name} |-> IF c = name THEN col ELSE df[c]]

-----------------------------------------------------------------------------
(* calculate_technical_indicators *)

TechnicalIndicators(df) ==
    LET d1 == WithColumn(df, "MA20", RollingMean(df["Close"], WindowMA20))
        d2 == WithColumn(d1, "MA50", RollingMean(d1["Close"], WindowMA50))
    IN  WithColumn(d2, "RSI", RsiColumn(d2["Close"]))

\* the function has no length check and no raise statement: it returns the
\* frame for every input that has a Close column
IndicatorsOutcome(df) == "returned"

-----------------------------------------------------------------------------
(* calculate_analysis / get_stock_analysis *)

NoValue == [k \in {} |-> k]

\* the first exception the reads of lines 12-18 raise, or "none"
ReadError(df) ==
    IF "Close" \notin DOMAIN df THEN "KeyError"
    ELSE IF Len(df["Close"]) < 2 THEN "IndexError"
    ELSE IF {"MA20", "MA50", "RSI", "Volume"} \ DOMAIN df # {} THEN "KeyError"
    ELSE "none"

Latest(df) ==
    [current_price |-> ILoc(df["Close"], 1),
     ma_20 |-> ILoc(df["MA20"], 1),
     ma_50 |-> ILoc(df["MA50"], 1),
     rsi |-> ILoc(df["RSI"], 1),
     volume |-> ILoc(df["Volume"], 1),
     avg_volume |-> RollingMeanAt(df["Volume"], WindowVolume, Len(df["Volume"]))]

VolumeHighFactor == <<6, 5>>    \* 1.2
VolumeLowFactor == <<4, 5>>     \* 0.8

Signals(l) ==
    [price_above_ma50 |-> FGt(l.current_price, l.ma_50),
     price_above_ma20 |-> FGt(l.current_price, l.ma_20),
     rsi_oversold |-> FLt(l.rsi, F(RsiOversold)),
     rsi_overbought |-> FGt(l.rsi, F(RsiOverbought)),
     volume_high |-> FGt(l.volume, FMul(l.avg_volume, VolumeHighFactor))]

\* mutant: the Sell row is tried before the Buy row
Recommend_sellFirst(s) ==
    IF s.rsi_overbought \/ (~s.price_above_ma50 /\ ~s.price_above_ma20)
    THEN <<"Sell", "High">>
    ELSE IF (s.price_above_ma50 /\ s.price_above_ma20 /\ ~s.rsi_overbought)
            \/ (s.rsi_oversold /\ s.volume_high)
    THEN <<"Buy", "Medium">>
    ELSE <<"Hold", "Low">>

Recommend(s) ==
    IF (s.price_above_ma50 /\ s.price_above_ma20 /\ ~s.rsi_overbought)
       \/ (s.rsi_oversold /\ s.volume_high)
    THEN <<"Buy", "Medium">>
    ELSE IF s.rsi_overbought \/ (~s.price_above_ma50 /\ ~s.price_above_ma20)
    THEN <<"Sell", "High">>
    ELSE <<"Hold", "Low">>

PriceTrend(l) == IF FGt(l.current_price, l.ma_50) THEN "bullish" ELSE "bearish"
Momentum(l) == IF FGt(l.current_price, l.ma_20) THEN "increasing" ELSE "decreasing"
VolumeTrend(l) ==
    IF FGt(l.volume, FMul(l.avg_volume, VolumeHighFactor)) THEN "high"
    ELSE IF FLt(l.volume, FMul(l.avg_volume, VolumeLowFactor)) THEN "low"
    ELSE "normal"

\* metrics.get(...) on something that is not a dict
FormatError(m) == IF m = "dict" THEN "none" ELSE "AttributeError"

\* the exception calculate_analysis raises on (df, m), or "none"
AnalysisError(df, m) ==
    IF ReadError(df) # "none" THEN ReadError(df) ELSE FormatError(m)

CalculateAnalysis(df) ==
    LET l == Latest(df)
        r == Recommend(Signals(l))
    IN  [summary |-> <<PriceTrend(l), Momentum(l), VolumeTrend(l)>>,
         technical_analysis |-> "Price Analysis",
         fundamental_analysis |-> "Market Metrics",
         recommendation |-> r[1],
         risk_level |-> r[2],
         reasoning |-> "Recommendation based on"]

Fallback ==
    [error |-> "Failed to generate analysis",
     summary |-> "Technical analysis based on price trends and indicators.",
     technical_analysis |-> "Analysis temporarily unavailable.",
     fundamental_analysis |-> "Analysis temporarily unavailable.",
     recommendation |-> "Hold",
     risk_level |-> "Medium",
     reasoning |-> "Insufficient data for detailed analysis."]

\* mutant: the handler is `except KeyError`
StockAnalysis_keyErrorOnly(df, m) ==
    IF AnalysisError(df, m) = "none"
    THEN <<CalculateAnalysis(df), "none", "none">>
    ELSE IF AnalysisError(df, m) = "KeyError"
    THEN <<Fallback, AnalysisError(df, m), "none">>
    ELSE <<NoValue, "none", AnalysisError(df, m)>>

\* try: return calculate_analysis(...) except Exception: return {...}
\* <<returned value, exception caught, exception propagated>>
StockAnalysis(df, m) ==
    IF AnalysisError(df, m) = "none"
    THEN <<CalculateAnalysis(df), "none", "none">>
    ELSE <<Fallback, AnalysisError(df, m), "none">>

-----------------------------------------------------------------------------------------------------------------------------------------------------
(* get_key_metrics.  A value of the info dict is a double or None; the      *)
(* result maps every label to a str.                                        *)

PyNone == <<>>
IsNone(v) == Len(v) = 0

\* label of the result, key of info
MetricFields ==
    <<[label |-> "Market Cap", key |-> "marketCap"],
      [label |-> "P/E Ratio", key |-> "trailingPE"],
      [label |-> "Forward P/E", key |-> "forwardPE"],
      [label |-> "Dividend Yield", key |-> "dividendYield"],
      [label |-> "Beta", key |-> "beta"],
      [label |-> "52 Week High", key |-> "fiftyTwoWeekHigh"],
      [label |-> "52 Week Low", key |-> "fiftyTwoWeekLow"]>>

RECURSIVE Pow10(_)
Pow10(k) == IF k = 0 THEN 1 ELSE 10 * Pow10(k - 1)

\* n/d (d > 0) rounded to an integer, ties to even, as float.__format__ does
RoundHalfEven(n, d) ==
    LET q == n \div d
        r == n % d
    IN  IF 2 * r < d THEN q
        ELSE IF 2 * r > d THEN q + 1
        ELSE IF q % 2 = 0 THEN q ELSE q + 1

RECURSIVE Digits(_, _)
\* n >= 0 in exactly k digits
Digits(n, k) == IF k = 0 THEN "" ELSE Digits(n \div 10, k - 1) \o ToString(n % 10)

RECURSIVE Grouped(_)
\* n >= 0 with thousands separators
Grouped(n) ==
    IF n < 1000 THEN ToString(n) ELSE Grouped(n \div 1000) \o "," \o Digits(n % 1000, 3)

NonFinite(v) == IF IsNaN(v) THEN "nan" ELSE IF v = PosInf THEN "inf" ELSE "-inf"
SignOf(v) == IF v[1] < 0 THEN "-" ELSE ""

\* f"{value:.<dec>f}"
FormatFixed(v, dec) ==
    IF ~IsFinite(v) THEN NonFinite(v)
    ELSE LET scaled == RoundHalfEven(Abs(v[1]) * Pow10(dec), v[2])
         IN  SignOf(v) \o ToString(scaled \div Pow10(dec))
             \o (IF dec = 0 THEN "" ELSE "." \o Digits(scaled % Pow10(dec), dec))

\* f"${value:,.0f}"
FormatMoney(v) ==
    IF ~IsFinite(v) THEN "$" \o NonFinite(v)
    ELSE "$" \o SignOf(v) \o Grouped(RoundHalfEven(Abs(v[1]), v[2]))

\* f"{value:.2%}"
FormatPercent(v) == FormatFixed(FMul(v, F(100)), 2) \o "%"

\* the branch of the formatting loop for one label
FormatMetric(label, v) ==
    IF label = "Market Cap" THEN FormatMoney(v)
    ELSE IF label \in {"Dividend Yield"} THEN FormatPercent(v)
    ELSE FormatFixed(v, 2)

MetricLabels == {MetricFields[i].label : i \in DOMAIN MetricFields}
KeyOf(label) == (CHOOSE i \in DOMAIN MetricFields : MetricFields[i].label = label)

\* the labels whose value is not 'N/A' and cannot be formatted
Unformattable(inf) ==
    {l \in MetricLabels :
        MetricFields[KeyOf(l)].key \in DOMAIN inf /\ IsNone(inf[MetricFields[KeyOf(l)].key])}

\* mutant: info['...'] for info.get('...', 'N/A')
KeyMetrics_subscript(inf) ==
    IF \E l \in MetricLabels : MetricFields[KeyOf(l)].key \notin DOMAIN inf
    THEN <<NoValue, "KeyError">>
    ELSE IF Unformattable(inf) # {} THEN <<NoValue, "TypeError">>
    ELSE <<[l \in MetricLabels |-> FormatMetric(l, inf[MetricFields[KeyOf(l)].key])], "none">>

\* <<the dict returned, the exception raised>>
KeyMetrics(inf) ==
    IF Unformattable(inf) # {} THEN <<NoValue, "TypeError">>
    ELSE <<[l \in MetricLabels |->
               IF MetricFields[KeyOf(l)].key \in DOMAIN inf
               THEN FormatMetric(l, inf[MetricFields[KeyOf(l)].key])
               ELSE "N/A"],
           "none">>

-----------------------------------------------------------------------------
(* calculate_basic_analysis *)

\* mutant: the price trend is read against MA20
BasicAnalysis_ma20(df) ==
    LET current_price == ILoc(df["Close"], 1)
        ma_20 == ILoc(df["MA20"], 1)
        rsi == ILoc(df["RSI"], 1)
        price_trend == IF FGt(current_price, ma_20) THEN "bullish" ELSE "bearish"
    IN  [summary |-> "Basic technical analysis based on price trends and RSI indicator.",
         technical_analysis |-> <<price_trend, rsi>>,
         fundamental_analysis |-> "Fundamental analysis unavailable without AI service.",
         recommendation |->
             IF FLt(rsi, F(RsiOversold)) /\ price_trend = "bullish" THEN "Buy"
             ELSE IF FGt(rsi, F(RsiOverbought)) /\ price_trend = "bearish" THEN "Sell"
             ELSE "Hold",
         risk_level |-> "Medium",
         reasoning |-> "Based on technical indicators only."]

BasicAnalysis(df) ==
    LET current_price == ILoc(df["Close"], 1)
        ma_50 == ILoc(df["MA50"], 1)
        rsi == ILoc(df["RSI"], 1)
        price_trend == IF FGt(current_price, ma_50) THEN "bullish" ELSE "bearish"
    IN  [summary |-> "Basic technical analysis based on price trends and RSI indicator.",
         technical_analysis |-> <<price_trend, rsi>>,
         fundamental_analysis |-> "Fundamental analysis unavailable without AI service.",
         recommendation |->
             IF FLt(rsi, F(RsiOversold)) /\ price_trend = "bullish" THEN "Buy"
             ELSE IF FGt(rsi, F(RsiOverbought)) /\ price_trend = "bearish" THEN "Sell"
             ELSE "Hold",
         risk_level |-> "Medium",
         reasoning |-> "Based on technical indicators only."]

-----------------------------------------------------------------------------
(* analyze_portfolio.  The market-data provider (yfinance) is the table     *)
(* Market: per symbol the daily closes, oldest first, and the info dict.    *)
(* A symbol the provider does not know has an empty history.                *)

Market ==
    [AAPL |-> [closes |-> <<F(140), F(145), F(150)>>, info |-> [sector |-> "Technology"]],
     MSFT |-> [closes |-> <<F(50), F(50), F(50)>>, info |-> [sector |-> "Technology"]],
     XOM  |-> [closes |-> <<F(101), F(102), F(100)>>, info |-> [sector |-> "Energy"]],
     ZZZZ |-> [closes |-> <<>>, info |-> [trailingPegRatio |-> "None"]],
     JNJ  |-> [closes |-> <<F(20), F(25), F(20)>>, info |-> [sector |-> "Healthcare"]],
     JPM  |-> [closes |-> <<F(30), F(30), F(33)>>, info |-> [sector |-> "Financial Services"]],
     NEE  |-> [closes |-> <<F(10), F(10), F(10)>>, info |-> [sector |-> "Utilities"]],
     PRIV |-> [closes |-> <<F(8), F(8), F(10)>>, info |-> [longName |-> "Private Co"]]]

Listing == <<"AAPL", "MSFT", "XOM", "ZZZZ", "JNJ", "JPM", "NEE", "PRIV">>
Symbols == {Listing[i] : i \in DOMAIN Listing}

\* stock.history(period='<n>d')['Close']: the last n daily closes
History(symbol, n) ==
    LET c == Market[symbol].closes
    IN  IF Len(c) <= n THEN c ELSE SubSeq(c, Len(c) - n + 1, Len(c))

\* .iloc[-1] of an empty Series
LookupError(symbol) ==
    IF Len(History(symbol, 1)) = 0 \/ Len(History(symbol, 2)) = 0
    THEN "single positional indexer is out-of-bounds" ELSE "none"

CurrentPrice(symbol) == ILoc(History(symbol, 1), 1)
PrevClose(symbol) == ILoc(History(symbol, 2), 1)

\* info.get('sector', 'Unknown')
SectorOf(symbol) ==
    LET info == Market[symbol].info
    IN  IF "sector" \in DOMAIN info THEN info["sector"] ELSE "Unknown"

\* ((current_price - prev_close) / prev_close) * 100
DailyChange(current_price, prev_close) ==
    FMul(FDiv(FSub(current_price, prev_close), prev_close), F(100))

\* mutant: d[key] = value
DictAdd_overwrite(d, key, value) ==
    [k \in DOMAIN d \cup {key} |-> IF k = key THEN value ELSE d[k]]

\* d[key] = d.get(key, 0) + value
DictAdd(d, key, value) ==
    [k \in DOMAIN d \cup {key} |->
        IF k = key THEN FAdd(IF key \in DOMAIN d THEN d[key] ELSE F(0), value) ELSE d[k]]

NewAnalysis ==
    [total_value |-> F(0),
     daily_change |-> F(0),
     stocks |-> <<>>,
     sector_distribution |-> [k \in {} |-> F(0)],
     risk_level |-> "Medium"]

\* one pass of the loop body on a row whose lookups succeed
AddHolding(a, r) ==
    LET current_price == CurrentPrice(r.Symbol)
        prev_close == PrevClose(r.Symbol)
        stock_value == FMul(current_price, F(r.Shares))
        daily_change == DailyChange(current_price, prev_close)
        total_value == FAdd(a.total_value, stock_value)
        sector == SectorOf(r.Symbol)
    IN  [total_value |-> total_value,
         daily_change |-> FAdd(a.daily_change,
                               FMul(daily_change, FDiv(stock_value, total_value))),
         stocks |-> Append(a.stocks,
                           [symbol |-> r.Symbol, shares |-> r.Shares,
                            current_price |-> current_price,
                            total_value |-> stock_value,
                            daily_change |-> daily_change, sector |-> sector]),
         sector_distribution |-> DictAdd(a.sector_distribution, sector, stock_value),
         risk_level |-> a.risk_level]

\* sector values to percentages of the total
Percentages(a) ==
    [k \in DOMAIN a.sector_distribution |->
        FMul(FDiv(a.sector_distribution[k], a.total_value), F(100))]

LowDiversification == 3
HighDiversification == 5

\* mutant: `<= 3` for `< 3`
RiskLevel_atMost(k, before) ==
    IF k <= LowDiversification THEN "High"
    ELSE IF k > HighDiversification THEN "Low"
    ELSE before

RiskLevel(k, before) ==
    IF k < LowDiversification THEN "High"
    ELSE IF k > HighDiversification THEN "Low"
    ELSE before

\* the statements after the loop
Finalize(a) ==
    LET pct == Percentages(a)
    IN  [a EXCEPT !.sector_distribution = pct,
                  !.risk_level = RiskLevel(Cardinality(DOMAIN pct), a.risk_level)]

\* raise Exception(f"Error analyzing portfolio: {str(e)}")
WrappedError(e) == [type |-> "Exception", message |-> <<"Error analyzing portfolio: ", e>>]

-----------------------------------------------------------------------------
(* The inputs: price series that sit at level a, moved to level b some      *)
(* records ago, and close at level a or b; volumes at BaseVolume with a     *)
(* last record of any volume                                                *)

StepAges == {0, 1, 2, 13, 14, 15, 19, 20, 21, 49, 50, 51}

CloseSeries(len, a, b, k, c) ==
    [i \in 1..len |-> IF i = len THEN F(c) ELSE IF i > len - k THEN F(b) ELSE F(a)]

VolumeSeries(len, w) == [i \in 1..len |-> IF i = len THEN F(w) ELSE F(BaseVolume)]

Frames ==
    { [col \in {"Close", "Volume"} |->
          IF col = "Close" THEN CloseSeries(len, p[1], p[2], k, p[3])
                           ELSE VolumeSeries(len, w)] :
        len \in 0..MaxLen,
        p \in {q \in (1..MaxPrice) \X (1..MaxPrice) \X (1..MaxPrice) : q[3] \in {q[1], q[2]}},
        k \in StepAges, w \in 1..MaxVolume }

(* Frames with the indicator columns filled in, for calculate_basic_analysis: *)
(* two records, the first at the lowest level, the last one at any close,    *)
(* averages undefined or at MaxPrice, RSI around both thresholds             *)

RsiLevels ==
    {NaN} \cup {F(RsiOversold + d) : d \in {-1, 0, 1}}
          \cup {F(RsiOverbought + d) : d \in {-1, 0, 1}}
AverageLevels == {NaN, F(MaxPrice)}

IndicatorFrames ==
    { [col \in {"Close", "Volume", "MA20", "MA50", "RSI"} |->
          CASE col = "Close" -> <<F(1), F(c)>>
            [] col = "Volume" -> <<F(BaseVolume), F(w)>>
            [] col = "MA20" -> <<NaN, m20>>
            [] col = "MA50" -> <<NaN, m50>>
            [] col = "RSI" -> <<NaN, r>>] :
        c \in 1..(MaxPrice + 1), w \in 1..MaxVolume,
        m20 \in AverageLevels, m50 \in AverageLevels, r \in RsiLevels }

(* The info dicts: every field absent, None, or one of its sample values;    *)
(* each sample carries the text Python prints for it                         *)

Samples ==
    [marketCap |-> {<<F(999), "$999">>, <<F(1200000000), "$1,200,000,000">>,
                    <<<<2469135, 2>>, "$1,234,568">>},
     trailingPE |-> {<<<<201, 8>>, "25.12">>, <<F(7), "7.00">>},
     forwardPE |-> {<<<<51, 2>>, "25.50">>},
     dividendYield |-> {<<<<1, 64>>, "1.56%">>, <<F(0), "0.00%">>},
     beta |-> {<<<<-1, 2>>, "-0.50">>, <<<<9, 8>>, "1.12">>},
     fiftyTwoWeekHigh |-> {<<<<8003, 8>>, "1000.38">>},
     fiftyTwoWeekLow |-> {<<<<1, 8>>, "0.12">>}]

InfoKeys == DOMAIN Samples
Absent == <<"absent">>
IsAbsent(v) == Len(v) = 1
Options(k) == {x[1] : x \in Samples[k]} \cup {PyNone, Absent}

Infos ==
    { [k \in {x \in InfoKeys : ~IsAbsent(c[x])} |-> c[k]] :
        c \in [marketCap : Options("marketCap"),
               trailingPE : Options("trailingPE"),
               forwardPE : Options("forwardPE"),
               dividendYield : Options("dividendYield"),
               beta : Options("beta"),
               fiftyTwoWeekHigh : Options("fiftyTwoWeekHigh"),
               fiftyTwoWeekLow : Options("fiftyTwoWeekLow")] }

MetricsArgs == {"dict", "None"}

(* The portfolios: every list of at most MaxRows rows, and every selection  *)
(* of the listed symbols, one share each, in listing order                  *)

Rows == [Symbol : Symbols, Shares : 1..MaxShares]

RECURSIVE Selection(_, _)
Selection(S, i) ==
    IF i > Len(Listing) THEN <<>>
    ELSE IF Listing[i] \in S
         THEN <<[Symbol |-> Listing[i], Shares |-> 1]>> \o Selection(S, i + 1)
         ELSE Selection(S, i + 1)

Portfolios ==
    UNION {[1..n -> Rows] : n \in 0..MaxRows} \cup {Selection(S, 1) : S \in SUBSET Symbols}

-----------------------------------------------------------------------------
(* The stock-analysis flow: main.py hands the fetched frame to              *)
(* calculate_technical_indicators and the result to get_stock_analysis      *)

StockIdle ==
    /\ hist_data = NoValue
    /\ metrics = "dict"
    /\ pc = "idle"
    /\ ind_outcome = "none"
    /\ signals = NoValue
    /\ analysis = NoValue
    /\ caught = "none"
    /\ propagated = "none"

PortfolioIdle ==
    /\ portfolio_data = <<>>
    /\ row = 1
    /\ pf = NoValue
    /\ ppc = "idle"
    /\ pf_result = NoValue
    /\ pf_error = NoValue

MetricsIdle ==
    /\ stock_info = NoValue
    /\ key_metrics = NoValue
    /\ km_raised = "none"
    /\ kpc = "idle"

Init ==
    /\ hist_data \in Frames
    /\ metrics = "dict"
    /\ pc = "start"
    /\ ind_outcome = "none"
    /\ signals = NoValue
    /\ analysis = NoValue
    /\ caught = "none"
    /\ propagated = "none"
    /\ PortfolioIdle
    /\ MetricsIdle

CalculateTechnicalIndicators ==
    /\ pc = "start"
    /\ hist_data' = TechnicalIndicators(hist_data)
    /\ ind_outcome' = IndicatorsOutcome(hist_data)
    /\ pc' = "indicators"
    /\ UNCHANGED <<metrics, signals, analysis, caught, propagated, portfolioVars, metricsVars>>

GetStockAnalysis ==
    /\ pc \in {"start", "indicators"}
    /\ \E m \in MetricsArgs :
          LET r == StockAnalysis(hist_data, m)
          IN  /\ metrics' = m
              /\ analysis' = r[1]
              /\ caught' = r[2]
              /\ propagated' = r[3]
              /\ signals' = IF ReadError(hist_data) = "none"
                            THEN Signals(Latest(hist_data)) ELSE NoValue
    /\ pc' = "done"
    /\ UNCHANGED <<hist_data, ind_outcome, portfolioVars, metricsVars>>

Next == CalculateTechnicalIndicators \/ GetStockAnalysis

Spec == Init /\ [][Next]_vars

-----------------------------------------------------------------------------
(* calculate_basic_analysis on a frame that has its indicator columns *)

InitBasic ==
    /\ hist_data \in IndicatorFrames
    /\ metrics = "dict"
    /\ pc = "basic"
    /\ ind_outcome = "none"
    /\ signals = NoValue
    /\ analysis = NoValue
    /\ caught = "none"
    /\ propagated = "none"
    /\ PortfolioIdle
    /\ MetricsIdle

CalculateBasicAnalysis ==
    /\ pc = "basic"
    /\ analysis' = BasicAnalysis(hist_data)
    /\ pc' = "basic_done"
    /\ UNCHANGED <<hist_data, metrics, ind_outcome, signals, caught, propagated,
                   portfolioVars, metricsVars>>

NextBasic == CalculateBasicAnalysis

SpecBasic == InitBasic /\ [][NextBasic]_vars

-----------------------------------------------------------------------------
(* get_key_metrics on the provider's info *)

InitMetrics ==
    /\ StockIdle
    /\ PortfolioIdle
    /\ stock_info \in Infos
    /\ key_metrics = NoValue
    /\ km_raised = "none"
    /\ kpc = "call"

GetKeyMetrics ==
    /\ kpc = "call"
    /\ key_metrics' = KeyMetrics(stock_info)[1]
    /\ km_raised' = KeyMetrics(stock_info)[2]
    /\ kpc' = IF KeyMetrics(stock_info)[2] = "none" THEN "returned" ELSE "raised"
    /\ UNCHANGED <<stock_info, stockVars, portfolioVars>>

NextMetrics == GetKeyMetrics

SpecMetrics == InitMetrics /\ [][NextMetrics]_vars

-----------------------------------------------------------------------------
(* analyze_portfolio, one row of the loop at a time *)

InitPortfolio ==
    /\ StockIdle
    /\ MetricsIdle
    /\ portfolio_data \in Portfolios
    /\ row = 1
    /\ pf = NewAnalysis
    /\ ppc = "loop"
    /\ pf_result = NoValue
    /\ pf_error = NoValue

ProcessRow ==
    /\ ppc = "loop"
    /\ row <= Len(portfolio_data)
    /\ LookupError(portfolio_data[row].Symbol) = "none"
    /\ pf' = AddHolding(pf, portfolio_data[row])
    /\ row' = row + 1
    /\ UNCHANGED <<portfolio_data, ppc, pf_result, pf_error, stockVars, metricsVars>>

LookupFails ==
    /\ ppc = "loop"
    /\ row <= Len(portfolio_data)
    /\ LookupError(portfolio_data[row].Symbol) # "none"
    /\ pf_error' = WrappedError(LookupError(portfolio_data[row].Symbol))
    /\ ppc' = "raised"
    /\ UNCHANGED <<portfolio_data, row, pf, pf_result, stockVars, metricsVars>>

Finish ==
    /\ ppc = "loop"
    /\ row > Len(portfolio_data)
    /\ pf' = Finalize(pf)
    /\ pf_result' = pf'
    /\ ppc' = "returned"
    /\ UNCHANGED <<portfolio_data, row, pf_error, stockVars, metricsVars>>

NextPortfolio == ProcessRow \/ LookupFails \/ Finish

SpecPortfolio == InitPortfolio /\ [][NextPortfolio]_vars

-----------------------------------------------------------------------------
(* Properties of the stock-analysis flow *)

Close == hist_data["Close"]
Computed == pc = "done" /\ caught = "none"
Pair == <<analysis["recommendation"], analysis["risk_level"]>>

BuyRow(s) ==
    (s.price_above_ma50 /\ s.price_above_ma20 /\ ~s.rsi_overbought)
    \/ (s.rsi_oversold /\ s.volume_high)
SellRow(s) == s.rsi_overbought \/ (~s.price_above_ma50 /\ ~s.price_above_ma20)

\* C1: on the non-fallback path the (recommendation, risk_level) pair is
\* (Buy, Medium) iff the Buy row of the decision table matches the signals,
\* (Sell, High) iff the Buy row does not match and the Sell row does,
\* (Hold, Low) iff neither matches, and it is never any other pair.
C1_DecisionTable ==
    Computed =>
        /\ Pair \in {<<"Buy", "Medium">>, <<"Sell", "High">>, <<"Hold", "Low">>}
        /\ Pair = <<"Buy", "Medium">> <=> BuyRow(signals)
        /\ Pair = <<"Sell", "High">> <=> (~BuyRow(signals) /\ SellRow(signals))
        /\ Pair = <<"Hold", "Low">> <=> (~BuyRow(signals) /\ ~SellRow(signals))

\* a run that matched the Sell row although the price is above MA50: the
\* RSI is overbought, so the Buy row's first disjunct is blocked
C1_Witness ==
    /\ Computed
    /\ signals.price_above_ma50 /\ signals.price_above_ma20 /\ signals.rsi_overbought
    /\ Pair = <<"Sell", "High">>

C1_ReachBuyByVolume ==
    Computed /\ ~signals.price_above_ma50 /\ signals.rsi_oversold /\ signals.volume_high
    /\ Pair = <<"Buy", "Medium">>
C1_ReachHold == Computed /\ Pair = <<"Hold", "Low">>
C1_ReachBuyByTrend ==
    Computed /\ signals.price_above_ma50 /\ ~signals.rsi_oversold /\ Pair = <<"Buy", "Medium">>

\* C2: get_stock_analysis lets no exception through; whenever
\* calculate_analysis raised, the value returned is (Hold, Medium) with
\* summary, technical_analysis, fundamental_analysis and reasoning present;
\* and every value returned has its recommendation in {Buy, Hold, Sell} and
\* its risk_level in {Low, Medium, High}.
C2_NeverPropagates ==
    pc = "done" =>
        /\ propagated = "none"
        /\ {"summary", "technical_analysis", "fundamental_analysis", "reasoning",
            "recommendation", "risk_level"} \subseteq DOMAIN analysis
        /\ analysis["recommendation"] \in {"Buy", "Hold", "Sell"}
        /\ analysis["risk_level"] \in {"Low", "Medium", "High"}
        /\ caught # "none" => Pair = <<"Hold", "Medium">>

\* a series too short to index made calculate_analysis raise
C2_Witness ==
    /\ pc = "done"
    /\ caught = "IndexError"
    /\ Len(Close) = 1
    /\ Pair = <<"Hold", "Medium">>

C2_ReachKeyError == pc = "done" /\ caught = "KeyError"
C2_ReachAttributeError == pc = "done" /\ caught = "AttributeError" /\ metrics = "None"

\* C3: given a series of fewer than 2 records, calculate_technical_indicators
\* fails with InsufficientDataError instead of returning an indicator set.
C3_InsufficientData ==
    (pc = "indicators" /\ Len(Close) < 2) => ind_outcome = "InsufficientDataError"

\* the closes of the 14-record window ending at i never fall
NoLossInWindow(i) ==
    \A j \in (i - WindowRSI + 1)..i : j > 1 => ~FLt(Close[j], Close[j - 1])

\* C4: at every index where the 14-record window is full and holds no loss,
\* the RSI is exactly 100.
C4_RsiHundredWithoutLoss ==
    pc = "indicators" =>
        \A i \in WindowRSI..Len(Close) :
            NoLossInWindow(i) => hist_data["RSI"][i] = F(100)

\* the mean of the w closes ending at i, stated on the column's value m
IsMeanOfLast(m, w, i) ==
    /\ IsFinite(m)
    /\ m[1] * SumF(Close, i - w + 1, i)[2] * w = m[2] * SumF(Close, i - w + 1, i)[1]

IsRollingMean(col, w) ==
    \A i \in 1..Len(Close) :
        IF i < w THEN IsNaN(col[i]) ELSE IsMeanOfLast(col[i], w, i)

\* C10: calculate_technical_indicators returns without error, and MA20
\* (MA50) at each record is the mean of the 20 (50) closes ending there,
\* undefined before the 20th (50th) record; a series of exactly 50 records
\* has MA50 defined at its last record only, and a series of 50 or more
\* records of one close C has MA20 = MA50 = C at its last record.
C10_MovingAverages ==
    pc = "indicators" =>
        /\ ind_outcome = "returned"
        /\ Len(hist_data["MA20"]) = Len(Close) /\ Len(hist_data["MA50"]) = Len(Close)
        /\ IsRollingMean(hist_data["MA20"], WindowMA20)
        /\ IsRollingMean(hist_data["MA50"], WindowMA50)
        /\ Len(Close) = WindowMA50 =>
              {i \in 1..Len(Close) : ~IsNaN(hist_data["MA50"][i])} = {WindowMA50}
        /\ (Len(Close) >= WindowMA50 /\ \A i \in 1..Len(Close) : Close[i] = Close[1]) =>
              /\ ILoc(hist_data["MA20"], 1) = Close[1]
              /\ ILoc(hist_data["MA50"], 1) = Close[1]

\* a series of exactly 50 records that moved one record ago
C10_Witness ==
    /\ pc = "indicators"
    /\ Len(Close) = WindowMA50
    /\ Close[1] # ILoc(Close, 1)
    /\ IsFinite(ILoc(hist_data["MA50"], 1))
    /\ ILoc(hist_data["MA50"], 1) # ILoc(hist_data["MA20"], 1)
    /\ IsNaN(ILoc(hist_data["MA50"], 2))

C10_ReachFlat ==
    /\ pc = "indicators"
    /\ Len(Close) > WindowMA50
    /\ \A i \in 1..Len(Close) : Close[i] = F(MaxPrice)
    /\ ILoc(hist_data["MA50"], 1) = F(MaxPrice)

\* the frame went through calculate_technical_indicators and the metrics
\* are the dict get_key_metrics returns, as on the page
PageFlow == pc = "done" /\ "MA20" \in DOMAIN hist_data /\ metrics = "dict"

\* C13: a series of 2 to 19 records, run through
\* calculate_technical_indicators and get_stock_analysis, does not take the
\* fallback and gives (Sell, High) whatever its prices and volumes; and with
\* fewer than 50 records the result is Buy only when rsi < 30 and
\* volume > 1.2 * the 20-record average volume.
C13_ShortSeriesSell ==
    PageFlow =>
        /\ (Len(Close) >= 2 /\ Len(Close) < WindowMA20) =>
              /\ caught = "none"
              /\ "error" \notin DOMAIN analysis
              /\ Pair = <<"Sell", "High">>
        /\ (Len(Close) >= 2 /\ Len(Close) < WindowMA50 /\ Pair = <<"Buy", "Medium">>) =>
              /\ FLt(ILoc(hist_data["RSI"], 1), F(RsiOversold))
              /\ FGt(ILoc(hist_data["Volume"], 1),
                     FMul(FDiv(SumF(hist_data["Volume"], Len(Close) - WindowVolume + 1,
                                    Len(Close)), F(WindowVolume)), VolumeHighFactor))

\* 19 records that rose at the last one, on a high last volume: the price
\* is above every earlier close, and the result is still Sell
C13_Witness ==
    /\ PageFlow
    /\ Len(Close) = WindowMA20 - 1
    /\ FGt(ILoc(Close, 1), ILoc(Close, 2))
    /\ FGt(ILoc(hist_data["Volume"], 1), ILoc(hist_data["Volume"], 2))
    /\ IsNaN(ILoc(hist_data["MA20"], 1))
    /\ Pair = <<"Sell", "High">>

C13_ReachBuyBelowFifty ==
    PageFlow /\ Len(Close) < WindowMA50 /\ Pair = <<"Buy", "Medium">>
C13_ReachHoldBelowFifty ==
    PageFlow /\ Len(Close) < WindowMA50 /\ Pair = <<"Hold", "Low">>

-----------------------------------------------------------------------------
(* Properties of calculate_basic_analysis *)

BasicDone == pc = "basic_done"
Bullish == FGt(ILoc(Close, 1), ILoc(hist_data["MA50"], 1))
LastRsi == ILoc(hist_data["RSI"], 1)

\* C12: calculate_basic_analysis recommends Buy iff rsi < 30 and the close
\* is above MA50, Sell iff rsi > 70 and the close is not above MA50, Hold in
\* every other case; the risk level is always Medium.  The result is thereby
\* a function of the close, MA50 and the RSI alone.
C12_BasicRecommendation ==
    BasicDone =>
        /\ analysis["recommendation"] = "Buy" <=> (FLt(LastRsi, F(30)) /\ Bullish)
        /\ analysis["recommendation"] = "Sell" <=> (FGt(LastRsi, F(70)) /\ ~Bullish)
        /\ analysis["recommendation"] = "Hold" <=>
              ~((FLt(LastRsi, F(30)) /\ Bullish) \/ (FGt(LastRsi, F(70)) /\ ~Bullish))
        /\ analysis["risk_level"] = "Medium"

\* Buy on an undefined MA20 and a low volume
C12_Witness ==
    /\ BasicDone
    /\ FLt(LastRsi, F(30)) /\ Bullish
    /\ IsNaN(ILoc(hist_data["MA20"], 1))
    /\ FLt(ILoc(hist_data["Volume"], 1), ILoc(hist_data["Volume"], 2))
    /\ analysis["recommendation"] = "Buy"

C12_ReachSellOnUndefinedMA50 ==
    BasicDone /\ IsNaN(ILoc(hist_data["MA50"], 1)) /\ analysis["recommendation"] = "Sell"
C12_ReachHoldAtThreshold ==
    BasicDone /\ LastRsi = F(30) /\ Bullish /\ analysis["recommendation"] = "Hold"
C12_ReachHoldOverboughtBullish ==
    BasicDone /\ FGt(LastRsi, F(70)) /\ Bullish /\ analysis["recommendation"] = "Hold"

-----------------------------------------------------------------------------
(* Properties of get_key_metrics *)

\* every field of stock_info is absent or a number
FactsAbsentOrNumeric == \A k \in DOMAIN stock_info : ~IsNone(stock_info[k])

LabelOf ==
    [marketCap |-> "Market Cap", trailingPE |-> "P/E Ratio", forwardPE |-> "Forward P/E",
     dividendYield |-> "Dividend Yield", beta |-> "Beta",
     fiftyTwoWeekHigh |-> "52 Week High", fiftyTwoWeekLow |-> "52 Week Low"]

C11_ReachAllMissing ==
    kpc = "returned" /\ DOMAIN stock_info = {} /\ \A l \in DOMAIN key_metrics : key_metrics[l] = "N/A"
C11_ReachAllThere ==
    kpc = "returned" /\ DOMAIN stock_info = InfoKeys /\ key_metrics["Dividend Yield"] = "1.56%"
\* outside the claim: a field that is there with the value None
C11_ReachNoneRaises ==
    kpc = "raised" /\ km_raised = "TypeError" /\ ~FactsAbsentOrNumeric

-----------------------------------------------------------------------------
(* Properties of analyze_portfolio *)

Range(f) == {f[x] : x \in DOMAIN f}
Returned == ppc = "returned"

\* the provider's latest close and the close of the trading day before it
LatestClose(symbol) == Market[symbol].closes[Len(Market[symbol].closes)]
PriorDayClose(symbol) == Market[symbol].closes[Len(Market[symbol].closes) - 1]
PctChange(symbol) ==
    FMul(FDiv(FSub(LatestClose(symbol), PriorDayClose(symbol)), PriorDayClose(symbol)), F(100))

\* C5: every holding's daily change is (currentPrice - previousClose) /
\* previousClose * 100 with previousClose the close of the trading day before
\* the one that supplies currentPrice.
C5_DailyChangeFromPriorClose ==
    Returned =>
        \A i \in 1..Len(pf_result.stocks) :
            pf_result.stocks[i].daily_change = PctChange(pf_result.stocks[i].symbol)

\* C6: when a lookup fails, no summary is returned and the raised error
\* names the symbol whose lookup failed.
C6_AbortNamesSymbol ==
    ppc = "raised" =>
        /\ pf_result = NoValue
        /\ portfolio_data[row].Symbol \in Range(pf_error.message)

\* what does hold of a failed lookup: nothing is returned
C6_NoPartialSummary == ppc = "raised" => pf_result = NoValue /\ pf_error # NoValue
C6_ReachLateFailure == ppc = "raised" /\ row > 1 /\ row < Len(portfolio_data)

RECURSIVE ValueOf(_, _, _)
\* the value of the rows 1..n of the portfolio that lie in the sectors S
ValueOf(n, S, rows) ==
    IF n = 0 THEN 0
    ELSE ValueOf(n - 1, S, rows)
         + (IF SectorOf(rows[n].Symbol) \in S
            THEN LatestClose(rows[n].Symbol)[1] * rows[n].Shares ELSE 0)

AllSectors == {SectorOf(x) : x \in Symbols}

RECURSIVE SumOver(_, _)
SumOver(d, K) ==
    IF K = {} THEN F(0)
    ELSE LET k == CHOOSE x \in K : TRUE IN FAdd(d[k], SumOver(d, K \ {k}))

\* C7: for a non-empty portfolio whose lookups all succeed, total_value is
\* the sum of currentPrice * shares over the holdings, each sector's entry is
\* that sector's value / total_value * 100, and the entries sum to 100.
C7_TotalAndSectorShares ==
    (Returned /\ Len(portfolio_data) > 0) =>
        LET n == Len(portfolio_data)
            total == ValueOf(n, AllSectors, portfolio_data)
            dist == pf_result.sector_distribution
        IN  /\ pf_result.total_value = F(total)
            /\ DOMAIN dist = {SectorOf(portfolio_data[i].Symbol) : i \in 1..n}
            /\ \A k \in DOMAIN dist :
                  /\ IsFinite(dist[k])
                  /\ dist[k][1] * total = dist[k][2] * 100 * ValueOf(n, {k}, portfolio_data)
            /\ SumOver(dist, DOMAIN dist) = F(100)

\* two holdings of one sector beside a third sector: 2 AAPL and MSFT make
\* 350 of Technology, XOM 100 of Energy
C7_Witness ==
    /\ Returned
    /\ Len(portfolio_data) >= 3
    /\ \E i, j \in 1..Len(portfolio_data) :
          /\ i # j
          /\ portfolio_data[i].Symbol # portfolio_data[j].Symbol
          /\ SectorOf(portfolio_data[i].Symbol) = SectorOf(portfolio_data[j].Symbol)
    /\ Cardinality(DOMAIN pf_result.sector_distribution) >= 2

\* the example of the specification, at a fifth of its share counts
C7_ReachExample ==
    /\ Returned
    /\ portfolio_data = <<[Symbol |-> "AAPL", Shares |-> 2], [Symbol |-> "XOM", Shares |-> 1]>>
    /\ pf_result.total_value = F(400)
    /\ pf_result.sector_distribution["Technology"] = F(75)
    /\ pf_result.sector_distribution["Energy"] = F(25)
    /\ pf_result.risk_level = "High"

\* the distinct sectors of the holdings, those without one under "Unknown"
SectorsHeld ==
    {Market[portfolio_data[i].Symbol].info["sector"] :
        i \in {j \in 1..Len(portfolio_data) :
                  "sector" \in DOMAIN Market[portfolio_data[j].Symbol].info}}
    \cup (IF \E i \in 1..Len(portfolio_data) :
                "sector" \notin DOMAIN Market[portfolio_data[i].Symbol].info
          THEN {"Unknown"} ELSE {})

\* C8: the risk level of a returned summary is High with fewer than 3
\* distinct sectors, Low with more than 5, Medium with 3 to 5.
C8_RiskBySectorCount ==
    Returned =>
        LET k == Cardinality(SectorsHeld)
        IN  pf_result.risk_level =
                IF k < 3 THEN "High" ELSE IF k > 5 THEN "Low" ELSE "Medium"

\* six sectors, one of them Unknown
C8_Witness ==
    /\ Returned
    /\ Cardinality(SectorsHeld) = 6
    /\ "Unknown" \in SectorsHeld
    /\ pf_result.risk_level = "Low"

C8_ReachMediumAtThree ==
    Returned /\ Cardinality(SectorsHeld) = 3 /\ pf_result.risk_level = "Medium"
C8_ReachMediumAtFive ==
    Returned /\ Cardinality(SectorsHeld) = 5 /\ pf_result.risk_level = "Medium"
C8_ReachHighAtTwo ==
    Returned /\ Cardinality(SectorsHeld) = 2 /\ pf_result.risk_level = "High"

RECURSIVE RunningWeighted(_, _)
\* sum over the rows 1..n of PctChange_i * value_i / (value_1 + ... + value_i)
RunningWeighted(n, rows) ==
    IF n = 0 THEN F(0)
    ELSE FAdd(RunningWeighted(n - 1, rows),
              FMul(PctChange(rows[n].Symbol),
                   FDiv(F(ValueOf(n, AllSectors, rows) - ValueOf(n - 1, AllSectors, rows)),
                        F(ValueOf(n, AllSectors, rows)))))

Swapped(rows) == <<rows[2], rows[1]>>

\* C9: daily_change is the running weighted accumulation of the holdings'
\* daily changes, the first holding at weight 1, and so depends on the order:
\* two holdings whose accumulation differs from that of the swapped pair give
\* a daily_change other than the swapped pair's.
C9_RunningWeightedChange ==
    Returned =>
        /\ pf_result.daily_change = RunningWeighted(Len(portfolio_data), portfolio_data)
        /\ (/\ Len(portfolio_data) = 2
            /\ RunningWeighted(2, portfolio_data) # RunningWeighted(2, Swapped(portfolio_data)))
           => pf_result.daily_change
                 # Finalize(AddHolding(AddHolding(NewAnalysis, portfolio_data[2]),
                                       portfolio_data[1])).daily_change

\* what does hold: the accumulation runs over the per-holding daily changes
\* the code computed
RECURSIVE RunningOverStocks(_, _)
RunningOverStocks(n, stocks) ==
    IF n = 0 THEN F(0)
    ELSE FAdd(RunningOverStocks(n - 1, stocks),
              FMul(stocks[n].daily_change,
                   FDiv(stocks[n].total_value,
                        SumOver([i \in 1..n |-> stocks[i].total_value], 1..n))))
C9_AccumulatesComputedChanges ==
    Returned =>
        pf_result.daily_change = RunningOverStocks(Len(pf_result.stocks), pf_result.stocks)
C9_AlwaysZero == Returned => pf_result.daily_change = F(0)

====
